---- MODULE Spec2Model ----
(***************************************************************************)
(* A model of the creature-plans pipeline:                                 *)
(*   parsecreature.py  - CreaturePlanParser (the Plan Collector)           *)
(*   chunkanalyzer.py  - ContentAnalyzer    (the Frequency Analyzer)       *)
(*                                                                         *)
(* Python strings are sequences of one-character strings, so that strip(), *)
(* split(), replace(), slicing and the `in` substring test are computed    *)
(* as the code computes them.  Python dicts are sequences of <<key, value>>*)
(* pairs in insertion order.  A JSON value the code inspects is tagged     *)
(* with its type: [t |-> "str", v |-> chars] or [t |-> "num", v |-> chars].*)
(* A raised exception is a result record with ok = FALSE.  A character is  *)
(* any of U+0001 .. U+00FF.                                                *)
(***************************************************************************)
EXTENDS Integers, Sequences, FiniteSets, TLC

VARIABLES
    pc,               \* position of the running program
    tree,             \* the input directory tree read by the collector
    results,          \* Full Aggregate returned by parse_all_plans
    condensed,        \* Short Aggregate returned by parse_all_plans
    data,             \* Short Aggregate read by the analyzer
    content_counter,  \* ContentAnalyzer.content_counter
    factor_counter,   \* ContentAnalyzer.factor_counter
    report,           \* Frequency Report written by save_results
    timestamp_str,    \* argument of a parse_timestamp call
    parsed,           \* result of that parse_timestamp call
    stdout            \* encoding of sys.stdout, the stream print() writes to

vars == <<pc, tree, results, condensed, data, content_counter,
          factor_counter, report, timestamp_str, parsed, stdout>>

(***************************************************************************)
(* Bounds of the model.                                                    *)
(***************************************************************************)
MaxThoughts == 3
MaxDirs == 2
MaxRecords == 3
MaxFracLen == 7

(***************************************************************************)
(* Python str primitives.                                                  *)
(***************************************************************************)
Str(s) == [t |-> "str", v |-> s]
Num(s) == [t |-> "num", v |-> s]
IsStr(x) == x.t = "str"

None == [t |-> "null"]

\* The whitespace str.strip() removes, str.isspace(): space, \t, \n, \r, \f,
\* the control characters VT (0x0B), FS (0x1C), GS (0x1D), RS (0x1E) and
\* US (0x1F), NEL (U+0085) and the no-break space NBSP (U+00A0).  The last
\* seven are written as the raw characters themselves.
VT == ""

FS == ""

GS == ""

RS == ""

US == ""

NEL == ""

NBSP == " "

\* the soft hyphen U+00AD
SHY == "­"

Whitespace == {" ", "\t", "\n", "\r", "\f", VT, FS, GS, RS, US, NEL, NBSP}

\* The whitespace int() skips around the digits.  A character below U+007F
\* reaches the C parser unchanged, which skips the C isspace set only (not
\* FS, GS, RS, US); a whitespace character above it is first turned into a
\* space.
IntWhitespace == {" ", "\t", "\n", "\r", "\f", VT, NEL, NBSP}

\* U+0001 .. U+001F and U+007F
AsciiControls ==
    {"", "", "", "", "", "", "", "", "\t", "\n", "", "\f",
     "\r", "", "", "", "", "", "", "", "", "", "", "",
     "", "", "", "", "", "", "", ""}

\* U+0080 .. U+009F
C1Controls ==
    {"", "", "", "", "", "", "", "", "", "", "", "",
     "", "", "", "", "", "", "", "", "", "", "", "",
     "", "", "", "", "", "", "", ""}

\* U+0080 .. U+00FF: the characters the ascii codec cannot encode
Latin1Supplement ==
    C1Controls \cup
    {" ", "¡", "¢", "£", "¤", "¥", "¦", "§", "¨", "©", "ª", "«",
     "¬", "­", "®", "¯", "°", "±", "²", "³", "´", "µ", "¶", "·",
     "¸", "¹", "º", "»", "¼", "½", "¾", "¿", "À", "Á", "Â", "Ã",
     "Ä", "Å", "Æ", "Ç", "È", "É", "Ê", "Ë", "Ì", "Í", "Î", "Ï",
     "Ð", "Ñ", "Ò", "Ó", "Ô", "Õ", "Ö", "×", "Ø", "Ù", "Ú", "Û",
     "Ü", "Ý", "Þ", "ß", "à", "á", "â", "ã", "ä", "å", "æ", "ç",
     "è", "é", "ê", "ë", "ì", "í", "î", "ï", "ð", "ñ", "ò", "ó",
     "ô", "õ", "ö", "÷", "ø", "ù", "ú", "û", "ü", "ý", "þ", "ÿ"}

\* str.isprintable() of a character
isprintable(c) == c \notin AsciiControls \cup C1Controls \cup {NBSP, SHY}

Digits == {"0", "1", "2", "3", "4", "5", "6", "7", "8", "9"}

DigitVal(c) ==
    CASE c = "0" -> 0 [] c = "1" -> 1 [] c = "2" -> 2 [] c = "3" -> 3
      [] c = "4" -> 4 [] c = "5" -> 5 [] c = "6" -> 6 [] c = "7" -> 7
      [] c = "8" -> 8 [] c = "9" -> 9

DigitChr(n) ==
    CASE n = 0 -> "0" [] n = 1 -> "1" [] n = 2 -> "2" [] n = 3 -> "3"
      [] n = 4 -> "4" [] n = 5 -> "5" [] n = 6 -> "6" [] n = 7 -> "7"
      [] n = 8 -> "8" [] n = 9 -> "9"

\* s[i:] for 0 <= i
Drop(s, i) == SubSeq(s, i + 1, Len(s))

\* s[:n]
Take(s, n) == SubSeq(s, 1, IF n < Len(s) THEN n ELSE Len(s))

RECURSIVE lstrip(_)
lstrip(s) ==
    IF s # <<>> /\ Head(s) \in Whitespace THEN lstrip(Tail(s)) ELSE s

RECURSIVE rstrip(_)
rstrip(s) ==
    IF s # <<>> /\ s[Len(s)] \in Whitespace
    THEN rstrip(SubSeq(s, 1, Len(s) - 1))
    ELSE s

\* str.strip()
strip(s) == rstrip(lstrip(s))

\* sub in s
Contains(sub, s) ==
    \E i \in 0..(Len(s) - Len(sub)) : SubSeq(s, i + 1, i + Len(sub)) = sub

\* s.replace(c, '') for a one-character c
RECURSIVE RemoveChar(_, _)
RemoveChar(s, c) ==
    IF s = <<>> THEN <<>>
    ELSE IF Head(s) = c THEN RemoveChar(Tail(s), c)
    ELSE <<Head(s)>> \o RemoveChar(Tail(s), c)

\* s.split(c) for a one-character c: the list of parts
RECURSIVE Split(_, _)
Split(s, c) ==
    IF \A i \in 1..Len(s) : s[i] # c THEN <<s>>
    ELSE LET k == CHOOSE i \in 1..Len(s) :
                      s[i] = c /\ \A j \in 1..(i - 1) : s[j] # c
         IN  <<SubSeq(s, 1, k - 1)>> \o Split(Drop(s, k), c)

\* int() of a run of ASCII digits
RECURSIVE DigitsToInt(_)
DigitsToInt(s) ==
    IF s = <<>> THEN 0
    ELSE 10 * DigitsToInt(SubSeq(s, 1, Len(s) - 1)) + DigitVal(s[Len(s)])

\* length of the maximal run of digits of s that starts at position i (1-based)
RECURSIVE DigitRun(_, _)
DigitRun(s, i) ==
    IF i <= Len(s) /\ s[i] \in Digits THEN 1 + DigitRun(s, i + 1) ELSE 0

\* n as exactly w decimal digits (zero padded)
RECURSIVE ZeroPad(_, _)
ZeroPad(n, w) ==
    IF w = 0 THEN <<>> ELSE ZeroPad(n \div 10, w - 1) \o <<DigitChr(n % 10)>>

Ok(x) == [ok |-> TRUE, value |-> x]

\* A raised exception e.  text holds the characters of str(e) that are taken
\* from the input; the rest of every message is ASCII.
RaiseText(e, text) == [ok |-> FALSE, exc |-> e, text |-> text]

Raise(e) == RaiseText(e, <<>>)

\* the characters of s that repr(s) writes as they are; it escapes the others
ReprRaw(s) == SelectSeq(s, isprintable)

\* s.encode(encoding) with errors = "strict" succeeds
CanEncode(encoding, s) ==
    encoding = "utf-8" \/ \A i \in 1..Len(s) : s[i] \notin Latin1Supplement

\* print(...) of a message whose characters taken from the input are s: it
\* raises when sys.stdout cannot encode one of them
stdout_write(encoding, s) ==
    IF CanEncode(encoding, s) THEN Ok(Len(s)) ELSE Raise("UnicodeEncodeError")

(***************************************************************************)
(* datetime.strptime(s, "%Y-%m-%dT%H:%M:%S.%fZ")                            *)
(* Every directive takes the run of digits up to the next literal of the   *)
(* format; the values are then range-checked by the directive's pattern    *)
(* and by the datetime constructor.  The message of "time data %r does not *)
(* match format %r" holds repr(s), that of "unconverted data remains: %s"  *)
(* the rest of s; the messages of the constructor are ASCII.               *)
(***************************************************************************)
IsLeap(y) == (y % 4 = 0 /\ y % 100 # 0) \/ y % 400 = 0

DaysInMonth(y, m) ==
    IF m = 2 THEN (IF IsLeap(y) THEN 29 ELSE 28)
    ELSE IF m \in {4, 6, 9, 11} THEN 30 ELSE 31

\* the format string, directive by directive
Format ==
    <<"%Y", "-", "%m", "-", "%d", "T", "%H", ":", "%M", ":", "%S", ".", "%f",
      "Z">>

IsDirective(d) == d \in {"%Y", "%m", "%d", "%H", "%M", "%S", "%f"}

\* how many digits a directive takes
Widths(d) == IF d = "%Y" THEN {4} ELSE IF d = "%f" THEN 1..6 ELSE 1..2

\* a literal of the format matches without regard to case
LiteralMatches(c, lit) ==
    c = lit \/ (lit = "T" /\ c = "t") \/ (lit = "Z" /\ c = "z")

\* Match the rest fmt of the format against s from position pos; found is
\* the list of digit strings of the directives matched so far.  A directive
\* takes n digits, n among widths; %d also takes a space and one digit.
\* The result holds the digit strings and the position after the match.
RECURSIVE MatchFormat(_, _, _, _)
RECURSIVE MatchDirective(_, _, _, _, _, _)
MatchDirective(fmt, s, pos, found, n, widths) ==
    IF n \in widths
    THEN MatchFormat(Tail(fmt), s, pos + n,
                     Append(found, SubSeq(s, pos, pos + n - 1)))
    ELSE RaiseText("ValueError", ReprRaw(s))

MatchFormat(fmt, s, pos, found) ==
    IF fmt = <<>>
    THEN Ok([fields |-> found, end |-> pos])
    ELSE IF Head(fmt) = "%d" /\ pos <= Len(s) /\ s[pos] = " "
    THEN MatchDirective(fmt, s, pos + 1, found, DigitRun(s, pos + 1), {1})
    ELSE IF IsDirective(Head(fmt))
    THEN MatchDirective(fmt, s, pos, found, DigitRun(s, pos),
                        Widths(Head(fmt)))
    ELSE IF pos <= Len(s) /\ LiteralMatches(s[pos], Head(fmt))
    THEN MatchFormat(Tail(fmt), s, pos + 1, found)
    ELSE RaiseText("ValueError", ReprRaw(s))

\* the digit strings <<Y, m, d, H, M, S, f>> are each in the pattern of
\* their directive
InPatterns(f) ==
    /\ DigitsToInt(f[2]) \in 1..12 /\ DigitsToInt(f[3]) \in 1..31
    /\ DigitsToInt(f[4]) \in 0..23 /\ DigitsToInt(f[5]) \in 0..59
    /\ DigitsToInt(f[6]) \in 0..61

\* datetime(y, m, d, H, M, S, us) of values that matched the format
DatetimeOf(y, m, d, H, M, S, us) ==
    IF y >= 1 /\ d <= DaysInMonth(y, m) /\ S <= 59
    THEN Ok([year |-> y, month |-> m, day |-> d, hour |-> H,
             minute |-> M, second |-> S, microsecond |-> us])
    ELSE Raise("ValueError")

\* what strptime makes of the match found of the format in s
DatetimeFrom(s, found) ==
    IF ~found.ok THEN found
    ELSE IF ~InPatterns(found.value.fields)
    THEN RaiseText("ValueError", ReprRaw(s))
    ELSE IF found.value.end # Len(s) + 1
    THEN RaiseText("ValueError", Drop(s, found.value.end - 1))
    ELSE DatetimeOf(DigitsToInt(found.value.fields[1]),
                    DigitsToInt(found.value.fields[2]),
                    DigitsToInt(found.value.fields[3]),
                    DigitsToInt(found.value.fields[4]),
                    DigitsToInt(found.value.fields[5]),
                    DigitsToInt(found.value.fields[6]),
                    DigitsToInt(found.value.fields[7]
                       \o [k \in 1..(6 - Len(found.value.fields[7])) |-> "0"]))

strptime(s) == DatetimeFrom(s, MatchFormat(Format, s, 1, <<>>))

\* str(datetime): "YYYY-MM-DD HH:MM:SS" and ".ffffff" when microsecond # 0
str_datetime(dt) ==
    ZeroPad(dt.year, 4) \o <<"-">> \o ZeroPad(dt.month, 2) \o <<"-">>
      \o ZeroPad(dt.day, 2) \o <<" ">> \o ZeroPad(dt.hour, 2) \o <<":">>
      \o ZeroPad(dt.minute, 2) \o <<":">> \o ZeroPad(dt.second, 2)
      \o (IF dt.microsecond = 0 THEN <<>>
          ELSE <<".">> \o ZeroPad(dt.microsecond, 6))

\* datetime ordering: a < b
DtKey(dt) == <<dt.year, dt.month, dt.day, dt.hour, dt.minute, dt.second,
               dt.microsecond>>

DtLess(a, b) ==
    \E i \in 1..7 :
        /\ DtKey(a)[i] < DtKey(b)[i]
        /\ \A j \in 1..(i - 1) : DtKey(a)[j] = DtKey(b)[j]

(***************************************************************************)
(* CreaturePlanParser                                                      *)
(***************************************************************************)
ExclusionLiteral ==
    <<"E", "x", "p", "l", "o", "r", "i", "n", "g", " ", "s", "y", "s", "t",
      "e", "m", " ", "d", "y", "n", "a", "m", "i", "c", "s", " ", "a", "n",
      "d", " ", "a", "d", "a", "p", "t", "a", "t", "i", "o", "n", " ", "p",
      "a", "t", "t", "e", "r", "n", "s">>

excluded_content == <<ExclusionLiteral, <<"p", "l", "a", "n", "_">> >>

\* the rule as whole-content equality: `content in self.excluded_content`
should_exclude_content_whole(content) ==
    \E i \in 1..Len(excluded_content) : excluded_content[i] = content

should_exclude_content(content) ==
    \E i \in 1..Len(excluded_content) : Contains(excluded_content[i], content)

\* the branch of parse_timestamp taken when '.' is in the string
TruncateFraction(parts) ==
    IF Len(parts) # 2 THEN Raise("ValueError")
    ELSE strptime(parts[1] \o <<".">> \o Take(RemoveChar(parts[2], "Z"), 6)
                    \o <<"Z">>)

\* timestamp_str is a tagged JSON value; `'.' in x` raises for a non-string
parse_timestamp(ts) ==
    IF ~IsStr(ts) THEN Raise("TypeError")
    ELSE IF Contains(<<".">>, ts.v) THEN TruncateFraction(Split(ts.v, "."))
    ELSE strptime(ts.v)

(***************************************************************************)
(* Insertion-ordered dict: a sequence of <<key, value>> pairs.             *)
(***************************************************************************)
DictKeys(d) == {d[i][1] : i \in 1..Len(d)}

DictGet(d, k) == d[CHOOSE i \in 1..Len(d) : d[i][1] = k][2]

\* d[k] = v
DictSet(d, k, v) ==
    IF k \in DictKeys(d)
    THEN [i \in 1..Len(d) |-> IF d[i][1] = k THEN <<k, v>> ELSE d[i]]
    ELSE Append(d, <<k, v>>)

\* thoughts.sort(key=lambda x: x.timestamp): stable, ascending.
\* InsertByTimestamp puts x after every element that is not later than x.
\* an insertion that goes before the elements of equal timestamp
InsertByTimestamp_before_equal(sorted, x) ==
    LET later == {i \in 1..Len(sorted) :
                      ~DtLess(sorted[i].timestamp, x.timestamp)}
        k == IF later = {} THEN Len(sorted) + 1
             ELSE CHOOSE i \in later : \A j \in later : i <= j
    IN  SubSeq(sorted, 1, k - 1) \o <<x>> \o SubSeq(sorted, k, Len(sorted))

InsertByTimestamp(sorted, x) ==
    LET later == {i \in 1..Len(sorted) :
                      DtLess(x.timestamp, sorted[i].timestamp)}
        k == IF later = {} THEN Len(sorted) + 1
             ELSE CHOOSE i \in later : \A j \in later : i <= j
    IN  SubSeq(sorted, 1, k - 1) \o <<x>> \o SubSeq(sorted, k, Len(sorted))

RECURSIVE SortFrom(_, _)
SortFrom(sorted, rest) ==
    IF rest = <<>> THEN sorted
    ELSE SortFrom(InsertByTimestamp(sorted, Head(rest)), Tail(rest))

SortByTimestamp(thoughts) == SortFrom(<<>>, thoughts)

ThoughtFields ==
    {"timestamp", "content", "real_time_factors", "relevance_score",
     "confidence_score"}

\* The body of the inner try of parse_single_plan: ThoughtData(...) built
\* from thought["timestamp"], thought["content"], ... in that order.
ThoughtData(thought, timestamp) ==
    IF ~timestamp.ok THEN timestamp
    ELSE IF \E f \in ThoughtFields : f \notin DOMAIN thought
    THEN Raise("KeyError")
    ELSE Ok([timestamp |-> timestamp.value,
             content |-> strip(thought["content"].v),
             real_time_factors |-> thought["real_time_factors"],
             relevance_score |-> thought["relevance_score"],
             confidence_score |-> thought["confidence_score"]])

MakeThoughtData(thought) ==
    IF "timestamp" \notin DOMAIN thought THEN Raise("KeyError")
    ELSE ThoughtData(thought, parse_timestamp(thought["timestamp"]))

\* thoughts.append(thought_data), or the except branch of the inner try: it
\* prints plan_path.name and str(e) and goes on to the next thought
AppendIfOk(encoding, name, thoughts, td) ==
    IF td.ok THEN Ok(Append(thoughts, td.value))
    ELSE IF stdout_write(encoding, name \o td.text).ok THEN Ok(thoughts)
    ELSE Raise("UnicodeEncodeError")

\* The for loop of parse_single_plan over plan_data["thoughts"]; thoughts is
\* Ok(the list so far) or what was raised.  The test of the content is
\* outside the inner try: a failure there leaves the loop, and so does a
\* failure of the print of the except branch.
RECURSIVE CollectThoughts(_, _, _, _)
CollectThoughts(encoding, name, rest, thoughts) ==
    IF ~thoughts.ok \/ rest = <<>> THEN thoughts
    ELSE IF "content" \notin DOMAIN Head(rest) THEN Raise("KeyError")
    ELSE IF ~IsStr(Head(rest)["content"]) THEN Raise("AttributeError")
    ELSE IF should_exclude_content(strip(Head(rest)["content"].v))
    THEN CollectThoughts(encoding, name, Tail(rest), thoughts)
    ELSE CollectThoughts(encoding, name, Tail(rest),
                         AppendIfOk(encoding, name, thoughts.value,
                                    MakeThoughtData(Head(rest))))

\* One entry of the "thoughts" list of a returned Plan Document.
RenderThought(t) ==
    [timestamp |-> str_datetime(t.timestamp),
     content |-> t.content,
     real_time_factors |-> t.real_time_factors,
     relevance_score |-> t.relevance_score,
     confidence_score |-> t.confidence_score]

\* the return of parse_single_plan without the test `if thoughts:`
MakeDocument_unguarded(folder, file, thoughts) ==
    [plan_id |-> IF "id" \in DOMAIN file.json.v THEN file.json.v["id"]
                 ELSE None,
     folder |-> folder,
     file_name |-> file.name,
     thoughts |-> [i \in 1..Len(thoughts) |-> RenderThought(thoughts[i])]]

\* "Only return if there are thoughts after filtering"
MakeDocument(folder, file, thoughts) ==
    IF thoughts # <<>>
    THEN [plan_id |-> IF "id" \in DOMAIN file.json.v THEN file.json.v["id"]
                      ELSE None,
          folder |-> folder,
          file_name |-> file.name,
          thoughts |-> [i \in 1..Len(thoughts) |-> RenderThought(thoughts[i])]]
    ELSE None

\* str(plan_path) of root/folder/name
PathStr(root_path, folder, name) ==
    root_path \o <<"/">> \o folder \o <<"/">> \o name

\* What follows the for loop: got is its outcome, an exception included.
\* The outer except branch prints plan_path and str(e) and returns None.
SortAndReturn(encoding, plan_path, folder, file, got) ==
    IF got.ok THEN Ok(MakeDocument(folder, file, SortByTimestamp(got.value)))
    ELSE IF stdout_write(encoding, plan_path \o got.text).ok THEN Ok(None)
    ELSE Raise("UnicodeEncodeError")

\* json.load(f) and plan_data.get("thoughts", []), then the loop
LoadAndCollect(encoding, file) ==
    IF file.json.t = "invalid" THEN Raise("JSONDecodeError")
    ELSE IF file.json.t # "object" THEN Raise("AttributeError")
    ELSE CollectThoughts(encoding, file.name,
                         IF "thoughts" \in DOMAIN file.json.v
                         THEN file.json.v["thoughts"] ELSE <<>>, Ok(<<>>))

\* parse_single_plan(plan_path) for plan_path = root_path/folder/file.name;
\* file.json is what json.load finds in the file and encoding is that of
\* sys.stdout.  The result is Ok(a Plan Document), Ok(None), or the exception
\* of a print inside the outer except branch.
parse_single_plan(encoding, root_path, folder, file) ==
    SortAndReturn(encoding, PathStr(root_path, folder, file.name), folder,
                  file, LoadAndCollect(encoding, file))

\* create_condensed_output(all_plans)
RECURSIVE CondenseThoughts(_)
CondenseThoughts(thoughts) ==
    IF thoughts = <<>> THEN <<>>
    ELSE LET thought == Head(thoughts)
         IN  (IF strip(thought.content) # ExclusionLiteral
              THEN << [c |-> strip(thought.content),
                       r |-> thought.real_time_factors] >>
              ELSE <<>>) \o CondenseThoughts(Tail(thoughts))

RECURSIVE CondensePlans(_)
CondensePlans(dir_plans) ==
    IF dir_plans = <<>> THEN <<>>
    ELSE CondenseThoughts(Head(dir_plans)[2].thoughts)
           \o CondensePlans(Tail(dir_plans))

RECURSIVE CondenseDirs(_)
CondenseDirs(plans) ==
    IF plans = <<>> THEN <<>>
    ELSE CondensePlans(Head(plans)[2]) \o CondenseDirs(Tail(plans))

create_condensed_output(all_plans) == CondenseDirs(all_plans.plans)

\* int(x.name): optional surrounding IntWhitespace, optional sign, then digits
\* with single underscores allowed between them
IntBody(d) ==
    /\ d # <<>>
    /\ \A i \in 1..Len(d) : d[i] \in Digits \cup {"_"}
    /\ d[1] # "_" /\ d[Len(d)] # "_"
    /\ \A i \in 1..(Len(d) - 1) : ~(d[i] = "_" /\ d[i + 1] = "_")

SignedInt(s, digits) ==
    IF IntBody(digits)
    THEN Ok(IF Head(s) = "-" THEN 0 - DigitsToInt(RemoveChar(digits, "_"))
            ELSE DigitsToInt(RemoveChar(digits, "_")))
    ELSE Raise("ValueError")

int_str(s) ==
    IF s # <<>> /\ Head(s) \in {"+", "-"} THEN SignedInt(s, Tail(s))
    ELSE SignedInt(s, s)

RECURSIVE int_lstrip(_)
int_lstrip(s) ==
    IF s # <<>> /\ Head(s) \in IntWhitespace THEN int_lstrip(Tail(s)) ELSE s

RECURSIVE int_rstrip(_)
int_rstrip(s) ==
    IF s # <<>> /\ s[Len(s)] \in IntWhitespace
    THEN int_rstrip(SubSeq(s, 1, Len(s) - 1))
    ELSE s

int_name(name) == int_str(int_rstrip(int_lstrip(name)))

\* directories.sort(key=lambda x: int(x.name)): stable, ascending
InsertByName(sorted, d) ==
    LET later == {i \in 1..Len(sorted) :
                      int_name(d.name).value < int_name(sorted[i].name).value}
        k == IF later = {} THEN Len(sorted) + 1
             ELSE CHOOSE i \in later : \A j \in later : i <= j
    IN  SubSeq(sorted, 1, k - 1) \o <<d>> \o SubSeq(sorted, k, Len(sorted))

RECURSIVE SortDirsFrom(_, _)
SortDirsFrom(sorted, rest) ==
    IF rest = <<>> THEN sorted
    ELSE SortDirsFrom(InsertByName(sorted, Head(rest)), Tail(rest))

\* if plan_data is not None: dir_plans[file_path.name] = plan_data
AddPlan(dir_plans, file_path, plan_data) ==
    IF plan_data # None THEN DictSet(dir_plans, file_path.name, plan_data)
    ELSE dir_plans

FileError(exc) == [msg |-> "Error processing", exc |-> exc]

\* the try block of the loop over json_files: print(file_path.name), then
\* parse_single_plan(file_path)
TryFile(encoding, root_path, folder, file_path) ==
    IF stdout_write(encoding, file_path.name).ok
    THEN parse_single_plan(encoding, root_path, folder, file_path)
    ELSE Raise("UnicodeEncodeError")

\* The rest of the loop body for the outcome plan_data of the try block.  st
\* holds dir_plans, errors and the exception that left the loop ("" for
\* none).  The except branch prints error_msg, which holds str(file_path)
\* and str(e), before it appends it to errors.
ProcessFile(encoding, plan_path, file_path, st, plan_data) ==
    IF plan_data.ok
    THEN [st EXCEPT !.dir_plans = AddPlan(@, file_path, plan_data.value)]
    ELSE IF stdout_write(encoding, plan_path \o plan_data.text).ok
    THEN [st EXCEPT !.errors = Append(@, FileError(plan_data.exc))]
    ELSE [st EXCEPT !.raised = "UnicodeEncodeError"]

\* the loop over json_files of one directory
RECURSIVE ParseFiles(_, _, _, _, _)
ParseFiles(encoding, root_path, folder, json_files, st) ==
    IF st.raised # "" \/ json_files = <<>> THEN st
    ELSE ParseFiles(encoding, root_path, folder, Tail(json_files),
             ProcessFile(encoding,
                         PathStr(root_path, folder, Head(json_files).name),
                         Head(json_files), st,
                         TryFile(encoding, root_path, folder,
                                 Head(json_files))))

\* if dir_plans: all_plans[dir_path.name] = dir_plans
AddDir(all_plans, dir_path, dir_plans) ==
    IF dir_plans # <<>> THEN DictSet(all_plans, dir_path.name, dir_plans)
    ELSE all_plans

\* The end of the body of the loop over directories; files is the state in
\* which the loop over json_files ended.  An exception that left that loop
\* leaves this one before dir_plans is stored.
EndDir(all_plans, dir_path, files) ==
    [all_plans |-> IF files.raised = ""
                   THEN AddDir(all_plans, dir_path, files.dir_plans)
                   ELSE all_plans,
     errors |-> files.errors,
     raised |-> files.raised]

\* the body of the loop over directories: print(dir_path.name), then the
\* files of glob('*.json')
ParseDir(encoding, root_path, dir_path, st) ==
    IF ~stdout_write(encoding, dir_path.name).ok
    THEN [st EXCEPT !.raised = "UnicodeEncodeError"]
    ELSE EndDir(st.all_plans, dir_path,
                ParseFiles(encoding, root_path, dir_path.name, dir_path.files,
                           [dir_plans |-> <<>>, errors |-> st.errors,
                            raised |-> ""]))

\* the loop over directories; st holds all_plans, errors and the exception
\* that left the loop ("" for none)
RECURSIVE ParseDirs(_, _, _, _)
ParseDirs(encoding, root_path, directories, st) ==
    IF st.raised # "" \/ directories = <<>> THEN st
    ELSE ParseDirs(encoding, root_path, Tail(directories),
                   ParseDir(encoding, root_path, Head(directories), st))

RECURSIVE SumPlans(_)
SumPlans(all_plans) ==
    IF all_plans = <<>> THEN 0
    ELSE Len(Head(all_plans)[2]) + SumPlans(Tail(all_plans))

\* results = {"plans": ..., "metadata": ..., "errors": ...}
MakeResults(root, now, all_plans, errors) ==
    [plans |-> all_plans,
     metadata |-> [total_directories |-> Len(all_plans),
                   total_plans |-> SumPlans(all_plans),
                   base_directory |-> root.path,
                   processed_at |-> now],
     errors |-> errors]

DirectoryError(exc) == << [msg |-> "Directory error", exc |-> exc] >>

\* the except branch of parse_all_plans, taken when the loop was left by an
\* exception, and the results built after it
Finish(root, now, st) ==
    MakeResults(root, now, st.all_plans,
                IF st.raised = "" THEN st.errors
                ELSE st.errors \o DirectoryError(st.raised))

\* the try block over the directories d of the root with d.is_dir()
ParseDirectories(encoding, root, now, directories) ==
    IF \A i \in 1..Len(directories) : int_name(directories[i].name).ok
    THEN Finish(root, now,
                ParseDirs(encoding, root.path,
                          SortDirsFrom(<<>>, directories),
                          [all_plans |-> <<>>, errors |-> <<>>,
                           raised |-> ""]))
    ELSE MakeResults(root, now, <<>>, DirectoryError("ValueError"))

\* parse_all_plans(): root is self.plans_directory as the file system shows
\* it, now is the reading of datetime.now() and encoding is that of
\* sys.stdout.  The second component of the returned pair is computed from
\* the first by create_condensed_output.
parse_all_plans(encoding, root, now) ==
    IF root.listable
    THEN ParseDirectories(encoding, root, now,
                          SelectSeq(root.children, LAMBDA d : d.is_dir))
    ELSE MakeResults(root, now, <<>>, DirectoryError("FileNotFoundError"))

(***************************************************************************)
(* ContentAnalyzer                                                         *)
(***************************************************************************)
\* an increment that starts again at 1 for a key already counted
CounterInc_restart(counter, key) ==
    IF key \in DictKeys(counter)
    THEN DictSet(counter, key, 1)
    ELSE Append(counter, <<key, 1>>)

\* counter[key] += 1 on a collections.Counter (a dict: insertion ordered)
CounterInc(counter, key) ==
    IF key \in DictKeys(counter)
    THEN DictSet(counter, key, DictGet(counter, key) + 1)
    ELSE Append(counter, <<key, 1>>)

RECURSIVE CountFactors(_, _)
CountFactors(factors, counter) ==
    IF factors = <<>> THEN counter
    ELSE CountFactors(Tail(factors), CounterInc(counter, strip(Head(factors))))

\* analyze_file(): the loop over the records of the loaded file; the result
\* is the pair <<content_counter, factor_counter>> after the loop.
RECURSIVE analyze_file(_, _, _)
analyze_file(records, contents, factors) ==
    IF records = <<>> THEN <<contents, factors>>
    ELSE LET thought == Head(records)
         IN  analyze_file(Tail(records),
                          CounterInc(contents, strip(thought.c)),
                          CountFactors(thought.r, factors))

\* sorted(counter.items(), key=lambda x: x[1], reverse=True): stable, the
\* items of equal count keep their order.  InsertByCount puts x after every
\* item whose count is not smaller than the count of x.
\* an insertion that goes before the items of equal count
InsertByCount_before_equal(sorted, x) ==
    LET smaller == {i \in 1..Len(sorted) : sorted[i][2] <= x[2]}
        k == IF smaller = {} THEN Len(sorted) + 1
             ELSE CHOOSE i \in smaller : \A j \in smaller : i <= j
    IN  SubSeq(sorted, 1, k - 1) \o <<x>> \o SubSeq(sorted, k, Len(sorted))

InsertByCount(sorted, x) ==
    LET smaller == {i \in 1..Len(sorted) : sorted[i][2] < x[2]}
        k == IF smaller = {} THEN Len(sorted) + 1
             ELSE CHOOSE i \in smaller : \A j \in smaller : i <= j
    IN  SubSeq(sorted, 1, k - 1) \o <<x>> \o SubSeq(sorted, k, Len(sorted))

RECURSIVE SortCountsFrom(_, _)
SortCountsFrom(sorted, rest) ==
    IF rest = <<>> THEN sorted
    ELSE SortCountsFrom(InsertByCount(sorted, Head(rest)), Tail(rest))

\* save_results(): the results object that is written to output_file
save_results(contents, factors) ==
    [content_counts |-> SortCountsFrom(<<>>, contents),
     factor_counts |-> SortCountsFrom(<<>>, factors)]

(***************************************************************************)
(* Inputs.                                                                 *)
(***************************************************************************)
S_hello == <<VT, NBSP, "h", "e", "l", "l", "o", " ", NEL, US>>

S_hi == <<"h", "i">>

S_tie == <<"t", "i", "e">>

S_plan_x == <<"p", "l", "a", "n", "_", "x">>

S_my_plan == <<"m", "y", " ", "p", "l", "a", "n", "_", "b">>

S_later == <<"l", "a", "t", "e", "r">>

S_lost == <<"l", "o", "s", "t">>

S_bare == <<"b", "a", "r", "e">>

S_literal_ws ==
    <<" ", "E", "x", "p", "l", "o", "r", "i", "n", "g", " ", "s", "y", "s",
      "t", "e", "m", " ", "d", "y", "n", "a", "m", "i", "c", "s", " ", "a",
      "n", "d", " ", "a", "d", "a", "p", "t", "a", "t", "i", "o", "n", " ",
      "p", "a", "t", "t", "e", "r", "n", "s", "\n">>

S_embedded ==
    <<"R", "e", ":", " ", "E", "x", "p", "l", "o", "r", "i", "n", "g", " ",
      "s", "y", "s", "t", "e", "m", " ", "d", "y", "n", "a", "m", "i", "c",
      "s", " ", "a", "n", "d", " ", "a", "d", "a", "p", "t", "a", "t", "i",
      "o", "n", " ", "p", "a", "t", "t", "e", "r", "n", "s">>

TS_nano ==
    <<"2", "0", "2", "4", "-", "0", "1", "-", "0", "1", "T", "0", "0", ":",
      "0", "0", ":", "0", "0", ".", "1", "2", "3", "4", "5", "6", "7", "8",
      "9", "Z">>

TS_micro ==
    <<"2", "0", "2", "4", "-", "0", "1", "-", "0", "1", "T", "0", "0", ":",
      "0", "0", ":", "0", "0", ".", "1", "2", "3", "4", "5", "6", "Z">>

TS_early ==
    <<"2", "0", "2", "3", "-", "1", "2", "-", "3", "1", "T", "2", "3", ":",
      "5", "9", ":", "5", "9", ".", "5", "Z">>

TS_nofrac ==
    <<"2", "0", "2", "4", "-", "0", "1", "-", "0", "1", "T", "0", "0", ":",
      "0", "0", ":", "0", "1", "Z">>

TS_word == <<"y", "e", "s", "t", "e", "r", "d", "a", "y">>

TS_twodots ==
    <<"2", "0", "2", "4", "-", "0", "1", "-", "0", "1", "T", "0", "0", ":",
      "0", "0", ":", "0", "0", ".", "1", "2", ".", "5", "Z">>

\* a fraction with a letter the ascii codec cannot encode
TS_accent ==
    <<"2", "0", "2", "4", "-", "0", "1", "-", "0", "1", "T", "0", "0", ":",
      "0", "0", ":", "0", "0", ".", "5", "é", "Z">>

\* a lower-case z ends the match; the letter after it is left over
TS_leftover ==
    <<"2", "0", "2", "4", "-", "0", "1", "-", "0", "1", "T", "0", "0", ":",
      "0", "0", ":", "0", "0", ".", "5", "z", "é", "Z">>

\* repr() escapes the no-break space
TS_nbsp ==
    <<"2", "0", "2", "4", "-", "0", "1", "-", "0", "1", "T", "0", "0", ":",
      "0", "0", ":", "0", "0", ".", "5", NBSP, "Z">>

TS_main ==
    <<"2", "0", "2", "4", "-", "0", "1", "-", "0", "1", "T", "0", "0", ":",
      "0", "0", ":", "0", "0">>

TS_main_short ==
    <<"2", "0", "2", "4", "-", "1", "-", "1", "T", "0", ":", "0", ":", "9">>

TS_main_feb30 ==
    <<"2", "0", "2", "4", "-", "0", "2", "-", "3", "0", "T", "0", "0", ":",
      "0", "0", ":", "0", "0">>

Thought(ts, content, factors, relevance, confidence) ==
    [timestamp |-> ts, content |-> content, real_time_factors |-> factors,
     relevance_score |-> relevance, confidence_score |-> confidence]

\* a JSON object that lacks the field f
Without(obj, f) == [k \in DOMAIN obj \ {f} |-> obj[k]]

SeqsUpTo(S, n) == UNION {[1..k -> S] : k \in 0..n}

\* scores are carried through unchanged; they are written in hundredths
T_hello == Thought(Str(TS_nano), Str(S_hello), << <<"a">>, <<"b">> >>, 50, 90)
T_tie == Thought(Str(TS_micro), Str(S_tie), << <<"b">> >>, 20, 30)
T_early == Thought(Str(TS_early), Str(S_hi), << <<"a">> >>, 70, 80)
T_plan == Thought(Str(TS_nofrac), Str(S_plan_x), << <<"a">> >>, 10, 10)
T_myplan == Thought(Str(TS_nano), Str(S_my_plan), << <<"b">> >>, 35, 45)
T_literal == Thought(Str(TS_micro), Str(S_literal_ws), << <<"a">> >>, 40, 40)
T_embedded == Thought(Str(TS_early), Str(S_embedded), << <<"c">> >>, 60, 60)
T_nofrac == Thought(Str(TS_nofrac), Str(S_later), << <<"c">> >>, 30, 30)
T_nocontent == Without(T_early, "content")
T_nofactors ==
    Without(Thought(Str(TS_micro), Str(S_lost), <<>>, 15, 25),
            "real_time_factors")
T_numcontent == Thought(Str(TS_micro), Num(<<"4", "2">>), <<>>, 1, 1)
T_badts == Thought(Str(TS_word), Str(S_bare), <<>>, 2, 2)
T_numts == Thought(Num(<<"7">>), Str(S_bare), <<>>, 3, 3)
T_accent == Thought(Str(TS_accent), Str(S_bare), <<>>, 4, 4)
T_nbsp == Thought(Str(TS_nbsp), Str(S_bare), <<>>, 5, 5)

ThoughtPool ==
    {T_hello, T_tie, T_early, T_plan, T_myplan, T_literal, T_embedded,
     T_nofrac, T_nocontent, T_nofactors}

JsonInvalid == [t |-> "invalid"]
JsonArray == [t |-> "array"]
JsonObject(fields) == [t |-> "object", v |-> fields]

PlanJson(thoughts) ==
    JsonObject([id |-> Str(<<"p", "1">>), thoughts |-> thoughts])

File(name, json) == [name |-> name, json |-> json]

N_plan == <<"p", "l", "a", "n", ".", "j", "s", "o", "n">>

N_a == <<"a", ".", "j", "s", "o", "n">>

N_b == <<"b", ".", "j", "s", "o", "n">>

N_accent == <<"é", ".", "j", "s", "o", "n">>

RootPath == <<"/", "p", "l", "a", "n", "s">>

RootPathAccent == <<"/", "p", "l", "a", "n", "s", "-", "é">>

RootAt(path, children) ==
    [path |-> path, listable |-> TRUE, children |-> children]

Root(children) == RootAt(RootPath, children)

\* trees of one directory "1" holding one file of up to MaxThoughts thoughts
SingleFileTrees ==
    {Root(<< [name |-> <<"1">>, is_dir |-> TRUE,
              files |-> <<File(N_plan, PlanJson(ths))>>] >>) :
        ths \in SeqsUpTo(ThoughtPool, MaxThoughts)}

\* what one child of the root can be: whether it is a directory, and the
\* files glob('*.json') lists in it
ChildKinds ==
    { [is_dir |-> FALSE, files |-> <<>>],
      [is_dir |-> TRUE, files |-> <<>>],
      [is_dir |-> TRUE,
       files |-> <<File(N_a, PlanJson(<<T_hello, T_plan, T_accent>>)),
                   File(N_b, PlanJson(<<T_nbsp, T_early>>))>>],
      [is_dir |-> TRUE, files |-> <<File(N_a, JsonInvalid)>>],
      [is_dir |-> TRUE,
       files |-> <<File(N_b, PlanJson(<<T_plan, T_literal>>)),
                   File(N_accent, PlanJson(<<T_tie, T_early>>))>>],
      [is_dir |-> TRUE,
       files |-> <<File(N_a, PlanJson(<<T_numcontent, T_tie>>)),
                   File(N_b, JsonArray)>>],
      [is_dir |-> TRUE,
       files |-> <<File(N_a, JsonObject([id |-> Str(<<"p">>)])),
                   File(N_b, JsonObject([thoughts |->
                                  <<T_badts, T_numts, T_early>>]))>>] }

\* NBSP and VT around the digits are skipped by int(); FS is not
NamePool == { <<"1">>, <<NBSP, "2", VT>>, <<"1", "0">>, <<"x">>, <<"3", FS>> }

ChildPool ==
    {[name |-> n, is_dir |-> k.is_dir, files |-> k.files] :
        n \in NamePool, k \in ChildKinds}

MultiDirTrees ==
    {Root(ch) : ch \in {c \in SeqsUpTo(ChildPool, MaxDirs) :
        \A i, j \in 1..Len(c) : i # j => c[i].name # c[j].name}}

\* a root directory that iterdir() cannot list
UnlistableTree == [path |-> RootPath, listable |-> FALSE, children |-> <<>>]

\* one directory "1" under a root whose path has a letter outside ASCII
AccentRootTrees ==
    {RootAt(RootPathAccent,
            << [name |-> <<"1">>, is_dir |-> k.is_dir, files |-> k.files] >>) :
        k \in ChildKinds}

InputTrees ==
    SingleFileTrees \cup MultiDirTrees \cup AccentRootTrees
      \cup {UnlistableTree}

\* the encodings of sys.stdout, each with errors = "strict"
StdoutEncodings == {"utf-8", "ascii"}

\* readings of datetime.now()
Clock == {0, 1}

ContentPool == { <<"a">>, <<NBSP, "a", GS>>, <<"b">> }

FactorListPool ==
    { <<>>, << <<"z">>, <<"x">> >>, << <<"y">>, <<RS, "x", NEL>> >>,
      << <<"x">>, <<"x">> >> }

ShortAggregates ==
    SeqsUpTo({[c |-> c, r |-> r] : c \in ContentPool, r \in FactorListPool},
             MaxRecords)

FracDigits == {"0", "7"}

TimestampInputs ==
    {Str(m \o f \o z) :
        m \in {TS_main, TS_main_short, TS_main_feb30},
        f \in {<<>>} \cup {<<".">> \o d : d \in SeqsUpTo(FracDigits, MaxFracLen)},
        z \in {<<"Z">>, <<>>}}
    \cup {Str(TS_nano), Str(TS_micro), Str(TS_early), Str(TS_nofrac),
          Str(TS_word), Str(TS_twodots), Str(TS_accent), Str(TS_leftover),
          Str(TS_nbsp), Num(<<"7">>)}

(***************************************************************************)
(* The collector: main() of parsecreature.py calls parse_all_plans once.   *)
(***************************************************************************)
Init ==
    /\ pc = "start"
    /\ tree \in InputTrees
    /\ stdout \in StdoutEncodings
    /\ results = None
    /\ condensed = <<>>
    /\ data = <<>>
    /\ content_counter = <<>>
    /\ factor_counter = <<>>
    /\ report = None
    /\ timestamp_str = None
    /\ parsed = None

ParseAllPlans ==
    /\ pc = "start"
    /\ \E now \in Clock :
         \E full_results \in {parse_all_plans(stdout, tree, now)} :
             /\ results' = full_results
             /\ condensed' = create_condensed_output(full_results)
    /\ pc' = "done"
    /\ UNCHANGED <<tree, data, content_counter, factor_counter, report,
                   timestamp_str, parsed, stdout>>

Next == ParseAllPlans

Spec == Init /\ [][Next]_vars

(***************************************************************************)
(* The analyzer: main() of chunkanalyzer.py builds a ContentAnalyzer and   *)
(* calls analyze_file, then save_results.                                  *)
(***************************************************************************)
InitAnalyzer ==
    /\ pc = "start"
    /\ data \in ShortAggregates
    /\ content_counter = <<>>
    /\ factor_counter = <<>>
    /\ report = None
    /\ tree = None
    /\ results = None
    /\ condensed = <<>>
    /\ timestamp_str = None
    /\ parsed = None
    /\ stdout \in StdoutEncodings

AnalyzeFile ==
    /\ pc = "start"
    /\ content_counter' = analyze_file(data, content_counter, factor_counter)[1]
    /\ factor_counter' = analyze_file(data, content_counter, factor_counter)[2]
    /\ pc' = "analyzed"
    /\ UNCHANGED <<tree, results, condensed, data, report, timestamp_str,
                   parsed, stdout>>

SaveResults ==
    /\ pc = "analyzed"
    /\ report' = save_results(content_counter, factor_counter)
    /\ pc' = "saved"
    /\ UNCHANGED <<tree, results, condensed, data, content_counter,
                   factor_counter, timestamp_str, parsed, stdout>>

NextAnalyzer == AnalyzeFile \/ SaveResults

SpecAnalyzer == InitAnalyzer /\ [][NextAnalyzer]_vars

(***************************************************************************)
(* One call of parse_timestamp.                                            *)
(***************************************************************************)
InitTimestamp ==
    /\ pc = "start"
    /\ timestamp_str \in TimestampInputs
    /\ parsed = None
    /\ tree = None
    /\ results = None
    /\ condensed = <<>>
    /\ data = <<>>
    /\ content_counter = <<>>
    /\ factor_counter = <<>>
    /\ report = None
    /\ stdout = "utf-8"

ParseTimestamp ==
    /\ pc = "start"
    /\ parsed' = parse_timestamp(timestamp_str)
    /\ pc' = "done"
    /\ UNCHANGED <<tree, results, condensed, data, content_counter,
                   factor_counter, report, timestamp_str, stdout>>

NextTimestamp == ParseTimestamp

SpecTimestamp == InitTimestamp /\ [][NextTimestamp]_vars

(***************************************************************************)
(* Properties.  The input of a run stays in `tree`, `data` and             *)
(* `timestamp_str`, so a property relates what was read to what was        *)
(* returned.                                                               *)
(***************************************************************************)
PlanMarker == <<"p", "l", "a", "n", "_">>

\* the children of the root that are directories
DirIdx == {i \in 1..Len(tree.children) : tree.children[i].is_dir}

\* the loop over the directories was entered with every directory in it
Enumerated ==
    /\ tree.listable
    /\ \A i \in DirIdx : int_name(tree.children[i].name).ok

\* the observation list of an input file ([] when there is none)
InputThoughts(file) ==
    IF file.json.t = "object" /\ "thoughts" \in DOMAIN file.json.v
    THEN file.json.v["thoughts"]
    ELSE <<>>

HasStrContent(th) == "content" \in DOMAIN th /\ IsStr(th["content"])

\* the observation's stripped content falls under the exclusion rule as the
\* spec words it: the literal by equality, "plan_" by substring
RuleExcluded(th) ==
    /\ HasStrContent(th)
    /\ \/ strip(th["content"].v) = ExclusionLiteral
       \/ Contains(PlanMarker, strip(th["content"].v))

\* the observation has every field and a timestamp that parses
ValidFields(th) ==
    /\ \A f \in ThoughtFields : f \in DOMAIN th
    /\ IsStr(th["content"])
    /\ parse_timestamp(th["timestamp"]).ok

\* the entry a valid observation has in a Plan Document
EntryOf(th) ==
    [timestamp |-> str_datetime(parse_timestamp(th["timestamp"]).value),
     content |-> strip(th["content"].v),
     real_time_factors |-> th["real_time_factors"],
     relevance_score |-> th["relevance_score"],
     confidence_score |-> th["confidence_score"]]

HasDoc(dname, fname) ==
    /\ dname \in DictKeys(results.plans)
    /\ fname \in DictKeys(DictGet(results.plans, dname))

Doc(dname, fname) == DictGet(DictGet(results.plans, dname), fname)

\* every entry of every thoughts list of the Full Aggregate
FullEntries ==
    UNION {UNION {{results.plans[d][2][f][2].thoughts[k] :
                      k \in 1..Len(results.plans[d][2][f][2].thoughts)} :
                  f \in 1..Len(results.plans[d][2])} :
           d \in 1..Len(results.plans)}

\* <<i, j>>: file j of directory i of the tree
InputFiles ==
    UNION {{<<i, j>> : j \in 1..Len(tree.children[i].files)} : i \in DirIdx}

FileAt(ij) == tree.children[ij[1]].files[ij[2]]

DirName(ij) == tree.children[ij[1]].name

\* C1: after parse_all_plans, no observation whose stripped content is the
\* exclusion literal or contains "plan_" has an entry in a thoughts list of
\* the Full Aggregate or a record in the Short Aggregate.
C1_ExcludedNeverAppears ==
    pc = "done" =>
        \A ij \in InputFiles :
            \A k \in 1..Len(InputThoughts(FileAt(ij))) :
                LET th == InputThoughts(FileAt(ij))[k]
                IN  RuleExcluded(th) =>
                      /\ \A e \in FullEntries :
                            e.content # strip(th["content"].v)
                      /\ \A n \in 1..Len(condensed) :
                            condensed[n].c # strip(th["content"].v)

\* an excluded observation sat in a file that still produced a Plan Document,
\* and the Short Aggregate has records
C1_Witness ==
    /\ pc = "done"
    /\ condensed # <<>>
    /\ \E ij \in InputFiles :
          /\ HasDoc(DirName(ij), FileAt(ij).name)
          /\ \E k \in 1..Len(InputThoughts(FileAt(ij))) :
                RuleExcluded(InputThoughts(FileAt(ij))[k])

\* C2: the thoughts list of every Plan Document is non-decreasing in parsed
\* timestamp, and observations of equal parsed timestamp keep the relative
\* order they have in the input file: the list is the image of input
\* positions p[1], p[2], ... whose timestamps never decrease and whose
\* positions increase wherever the timestamps are equal.
C2_SortedStable ==
    pc = "done" =>
        \A ij \in InputFiles :
            HasDoc(DirName(ij), FileAt(ij).name) =>
                LET ths == InputThoughts(FileAt(ij))
                    out == Doc(DirName(ij), FileAt(ij).name).thoughts
                    at(th) == parse_timestamp(th["timestamp"]).value
                IN  \E p \in [1..Len(out) -> 1..Len(ths)] :
                        /\ \A a \in 1..Len(out) :
                              /\ ValidFields(ths[p[a]])
                              /\ out[a] = EntryOf(ths[p[a]])
                        /\ \A a, b \in 1..Len(out) :
                              a < b =>
                                /\ ~DtLess(at(ths[p[b]]), at(ths[p[a]]))
                                /\ at(ths[p[a]]) = at(ths[p[b]]) => p[a] < p[b]

\* a file listing <hello, tie, hi> with hello and tie at one parsed instant
\* and hi earlier came out as <hi, hello, tie>
C2_Witness ==
    /\ pc = "done"
    /\ \E ij \in InputFiles :
          /\ InputThoughts(FileAt(ij)) = <<T_hello, T_tie, T_early>>
          /\ HasDoc(DirName(ij), FileAt(ij).name)
          /\ Doc(DirName(ij), FileAt(ij).name).thoughts
                = <<EntryOf(T_early), EntryOf(T_hello), EntryOf(T_tie)>>

\* an observation that passes the filter and the parsing of its file
Survives(th) ==
    /\ HasStrContent(th)
    /\ ~should_exclude_content(strip(th["content"].v))
    /\ ValidFields(th)

NoSurvivor(file) ==
    \A k \in 1..Len(InputThoughts(file)) : ~Survives(InputThoughts(file)[k])

\* C5: the Full Aggregate holds no empty container: every Plan Document has
\* a thought, a file without a surviving observation is no key of its
\* directory's mapping, and a directory is a key of plans only with a
\* non-empty mapping whose keys are files of that directory that kept an
\* observation.
C5_NoEmptyContainer ==
    pc = "done" =>
        /\ \A d \in 1..Len(results.plans) :
              /\ results.plans[d][2] # <<>>
              /\ \A f \in 1..Len(results.plans[d][2]) :
                    /\ results.plans[d][2][f][2].thoughts # <<>>
                    /\ \E ij \in InputFiles :
                          /\ DirName(ij) = results.plans[d][1]
                          /\ FileAt(ij).name = results.plans[d][2][f][1]
                          /\ ~NoSurvivor(FileAt(ij))
        /\ \A ij \in InputFiles :
              NoSurvivor(FileAt(ij)) => ~HasDoc(DirName(ij), FileAt(ij).name)

\* a file with observations but no survivor was left out while a file beside
\* it was kept, and a directory with files was left out of plans altogether
C5_Witness ==
    /\ pc = "done"
    /\ \E ij \in InputFiles :
          /\ InputThoughts(FileAt(ij)) # <<>>
          /\ NoSurvivor(FileAt(ij))
          /\ DirName(ij) \in DictKeys(results.plans)
    /\ \E i \in DirIdx :
          /\ tree.children[i].files # <<>>
          /\ tree.children[i].name \notin DictKeys(results.plans)
    /\ results.metadata.total_plans >= 1

\* a file json.load cannot parse
FileFails(file) == file.json.t = "invalid"

\* an observation whose field access or timestamp parse raises
ObservationFails(th) ==
    \/ ~HasStrContent(th)
    \/ /\ ~should_exclude_content(strip(th["content"].v))
       /\ ~ValidFields(th)

\* C6: a leaf file that fails to parse as JSON, or an observation that fails
\* (missing field, malformed timestamp), leaves at least one entry in the
\* errors list of the Full Aggregate.
C6_FailuresRecorded ==
    pc = "done" =>
        \A ij \in InputFiles :
            (Enumerated /\
             (\/ FileFails(FileAt(ij))
              \/ \E k \in 1..Len(InputThoughts(FileAt(ij))) :
                    ObservationFails(InputThoughts(FileAt(ij))[k])))
            => results.errors # <<>>

\* C7: in parse_single_plan a failing observation (a missing or non-string
\* content included) is the only one skipped: every valid, not excluded
\* observation of the same file is in the file's Plan Document.
C7_OnlyFailingObservationSkipped ==
    pc = "done" =>
        \A ij \in InputFiles :
            Enumerated =>
                \A k \in 1..Len(InputThoughts(FileAt(ij))) :
                    LET th == InputThoughts(FileAt(ij))[k]
                    IN  Survives(th) =>
                          /\ HasDoc(DirName(ij), FileAt(ij).name)
                          /\ \E a \in 1..Len(Doc(DirName(ij),
                                                 FileAt(ij).name).thoughts) :
                                Doc(DirName(ij), FileAt(ij).name).thoughts[a]
                                    = EntryOf(th)

\* parse_single_plan returns a Plan Document for the file
YieldsDocument(ij) ==
    /\ parse_single_plan(stdout, tree.path, DirName(ij), FileAt(ij)).ok
    /\ parse_single_plan(stdout, tree.path, DirName(ij), FileAt(ij)).value
          # None

\* C9: a directory whose name is no integer is recorded in errors and does
\* not stop the run: every file of every other directory that yields a Plan
\* Document is in the Full Aggregate.
C9_DirectoryFailureIsolated ==
    (pc = "done" /\ tree.listable /\ ~Enumerated) =>
            /\ results.errors # <<>>
            /\ \A ij \in InputFiles :
                  (/\ int_name(DirName(ij)).ok
                   /\ YieldsDocument(ij))
                  => HasDoc(DirName(ij), FileAt(ij).name)

\* C10: the literal excludes by equality only: an observation with valid
\* fields whose stripped content holds the literal as a proper substring and
\* no "plan_" is kept, in the Full Aggregate and in the Short Aggregate.
C10_LiteralByEqualityOnly ==
    pc = "done" =>
        \A ij \in InputFiles :
            (/\ Enumerated
             /\ \A k \in 1..Len(InputThoughts(FileAt(ij))) :
                   HasStrContent(InputThoughts(FileAt(ij))[k]))
            => \A k \in 1..Len(InputThoughts(FileAt(ij))) :
                  LET th == InputThoughts(FileAt(ij))[k]
                  IN  (/\ ValidFields(th)
                       /\ Contains(ExclusionLiteral, strip(th["content"].v))
                       /\ strip(th["content"].v) # ExclusionLiteral
                       /\ ~Contains(PlanMarker, strip(th["content"].v)))
                      => /\ EntryOf(th) \in FullEntries
                         /\ \E n \in 1..Len(condensed) :
                               condensed[n] = [c |-> strip(th["content"].v),
                                               r |-> th["real_time_factors"]]

\* the positions of the factor strings of the input: <<record, index>>
FactorPos ==
    UNION {{<<i, j>> : j \in 1..Len(data[i].r)} : i \in 1..Len(data)}

FactorAt(p) == strip(data[p[1]].r[p[2]])

\* p comes before q in the counting pass
Before(p, q) == p[1] < q[1] \/ (p[1] = q[1] /\ p[2] < q[2])

\* C3: after analyze_file and save_results on a fresh analyzer,
\* content_counts maps each distinct stripped content to the number of
\* records with that stripped content, factor_counts maps each distinct
\* stripped factor to the number of its occurrences over all factor lists,
\* and neither has another key.
C3_CountsExact ==
    pc = "saved" =>
        /\ DictKeys(report.content_counts)
              = {strip(data[i].c) : i \in 1..Len(data)}
        /\ \A a, b \in 1..Len(report.content_counts) :
              a # b => report.content_counts[a][1] # report.content_counts[b][1]
        /\ \A a \in 1..Len(report.content_counts) :
              report.content_counts[a][2]
                 = Cardinality({i \in 1..Len(data) :
                        strip(data[i].c) = report.content_counts[a][1]})
        /\ DictKeys(report.factor_counts) = {FactorAt(p) : p \in FactorPos}
        /\ \A a, b \in 1..Len(report.factor_counts) :
              a # b => report.factor_counts[a][1] # report.factor_counts[b][1]
        /\ \A a \in 1..Len(report.factor_counts) :
              report.factor_counts[a][2]
                 = Cardinality({p \in FactorPos :
                        FactorAt(p) = report.factor_counts[a][1]})

\* two records whose contents differ only by whitespace were counted under
\* one key, and a factor was counted three times
C3_Witness ==
    /\ pc = "saved"
    /\ \E i, j \in 1..Len(data) :
          data[i].c # data[j].c /\ strip(data[i].c) = strip(data[j].c)
    /\ \E a \in 1..Len(report.content_counts) : report.content_counts[a][2] >= 2
    /\ \E a \in 1..Len(report.factor_counts) : report.factor_counts[a][2] >= 3

\* the record at which the counting pass first meets content key k
FirstContent(k) ==
    CHOOSE i \in 1..Len(data) :
        strip(data[i].c) = k /\ \A j \in 1..(i - 1) : strip(data[j].c) # k

\* the position at which the counting pass first meets factor key k
FirstFactor(k) ==
    CHOOSE p \in FactorPos :
        FactorAt(p) = k /\ \A q \in FactorPos : FactorAt(q) = k => ~Before(q, p)

\* C4: content_counts and factor_counts of the Frequency Report iterate in
\* non-increasing order of count, and of two keys of equal count the one the
\* counting pass of analyze_file met first comes first.
C4_RankedStable ==
    pc = "saved" =>
        /\ \A a, b \in 1..Len(report.content_counts) :
              a < b =>
                /\ report.content_counts[a][2] >= report.content_counts[b][2]
                /\ report.content_counts[a][2] = report.content_counts[b][2]
                     => FirstContent(report.content_counts[a][1])
                           < FirstContent(report.content_counts[b][1])
        /\ \A a, b \in 1..Len(report.factor_counts) :
              a < b =>
                /\ report.factor_counts[a][2] >= report.factor_counts[b][2]
                /\ report.factor_counts[a][2] = report.factor_counts[b][2]
                     => Before(FirstFactor(report.factor_counts[a][1]),
                               FirstFactor(report.factor_counts[b][1]))

\* the sort moved a later-met factor to the front and left two keys of equal
\* count behind it
C4_Witness ==
    /\ pc = "saved"
    /\ report.factor_counts # factor_counter
    /\ \E a \in 1..(Len(report.factor_counts) - 1) :
          report.factor_counts[a][2] = report.factor_counts[a + 1][2]

\* s is YYYY-MM-DDTHH:MM:SS of a real date and time, then optionally a dot
\* and one or more digits, then Z
WellFormedTimestamp(s) ==
    /\ Len(s) >= 20
    /\ \A i \in {1, 2, 3, 4, 6, 7, 9, 10, 12, 13, 15, 16, 18, 19} :
          s[i] \in Digits
    /\ s[5] = "-" /\ s[8] = "-" /\ s[11] = "T" /\ s[14] = ":" /\ s[17] = ":"
    /\ DigitsToInt(SubSeq(s, 1, 4)) >= 1
    /\ DigitsToInt(SubSeq(s, 6, 7)) \in 1..12
    /\ DigitsToInt(SubSeq(s, 9, 10)) \in
          1..DaysInMonth(DigitsToInt(SubSeq(s, 1, 4)),
                         DigitsToInt(SubSeq(s, 6, 7)))
    /\ DigitsToInt(SubSeq(s, 12, 13)) \in 0..23
    /\ DigitsToInt(SubSeq(s, 15, 16)) \in 0..59
    /\ DigitsToInt(SubSeq(s, 18, 19)) \in 0..59
    /\ s[Len(s)] = "Z"
    /\ \/ Len(s) = 20
       \/ /\ Len(s) >= 22
          /\ s[20] = "."
          /\ \A i \in 21..(Len(s) - 1) : s[i] \in Digits

\* the first six fractional digits, right-padded with zeros, as a number
FirstSixDigits(s) ==
    LET frac == Take(SubSeq(s, 21, Len(s) - 1), 6)
    IN  DigitsToInt(frac \o [k \in 1..(6 - Len(frac)) |-> "0"])

\* C8: parse_timestamp accepts every YYYY-MM-DDTHH:MM:SS[.digits]Z: without
\* a fraction the result has zero microseconds, with one its microseconds
\* are the first six fractional digits (padded, never rounded).
C8_TimestampAccepted ==
    (pc = "done" /\ IsStr(timestamp_str)
       /\ WellFormedTimestamp(timestamp_str.v)) =>
        /\ parsed.ok
        /\ parsed.value.microsecond = FirstSixDigits(timestamp_str.v)
        /\ parsed.value.second = DigitsToInt(SubSeq(timestamp_str.v, 18, 19))

====
